---- MODULE Spec2Model ----
(***************************************************************************)
(* Model of the peer-to-peer training launcher adept/scripts/p2p.py: every *)
(* MPI rank runs main(); rank 0 mints the run timestamp and creates the    *)
(* log directory, the timestamp is broadcast, the ranks meet at a barrier, *)
(* each derives its environment seed, the network parameters of rank 0 are *)
(* broadcast buffer by buffer, and each rank then builds its logger and    *)
(* its P2PWorker container and runs it.                                    *)
(*                                                                         *)
(* Collective calls are paired by call sequence: the k-th collective call  *)
(* of a rank is matched with the k-th collective call of every other rank. *)
(* calls[p] is the sequence of collective calls rank p has issued; a       *)
(* broadcast received as k-th call reads what the root sent in its k-th    *)
(* call, a barrier entered as k-th call is left once every rank has issued *)
(* its k-th call.                                                          *)
(***************************************************************************)
EXTENDS Integers, Sequences, FiniteSets, TLC

\* ------------------------------------------------------------------ bounds
\* Largest number of peers (mpirun -np); runs with 2..MaxN peers are explored.
MaxN == 3
\* Number of parameter buffers network.parameters() enumerates.
NumParams == 2
\* max_train_steps handed to container.run.
MaxSteps == 3
\* The configured synchronize_step_interval, when one is configured.
SyncInterval == 2
\* Largest nb_env and largest small base seed drawn for the seed assignment.
MaxNbEnv == 3
MaxSeed == 2
\* Largest number of device ids given with --gpu-id.
MaxGpus == 3

None == "None"
NoPath == << >>
NoPayload == << "nothing" >>

\* datetime.now().strftime(...) values rank 0 may mint.
Timestamps == {"2018-06-01_12-00-00", "2018-06-01_12-00-01"}

VARIABLES
    size,           \* comm.Get_size()
    args,           \* the parsed command line, the same on every rank
    pc,             \* pc[p]: where rank p is in main()
    timestamp,      \* timestamp[p]: the local variable timestamp
    log_id_dir,     \* log_id_dir[p]: the local variable log_id_dir
    fs,             \* the paths that exist on the shared filesystem
    seed,           \* seed[p]: the environment seed
    p2pseed,        \* p2pseed[p]: the shared seed of the p2p protocol
    params,         \* params[p]: network.parameters(), as a sequence of buffers
    variables,      \* variables[p]: the numpy buffers the broadcast fills
    idx,            \* idx[p]: number of buffers already broadcast in the running loop
    handles,        \* handles[p]: the pending broadcasts of network.sync, as call indexes
    calls,          \* calls[p]: the collective calls rank p has issued, in order
    opened,         \* opened[p]: log file and summary directory rank p opened
    container,      \* container[p]: the P2PWorker's configuration, once built
    local_step,     \* local_step[p]: the container's local step counter
    events,         \* events[p]: the sync events rank p has completed
    decided,        \* decided[p]: the periodic-sync decisions taken, one per step
    gpu_id,         \* gpu_id[p]: the device rank p selected
    names,          \* names[p]: the buffer names, in the order rank p enumerates them
    sync_call,      \* sync_call[p]: src and async_op of the network.sync call under way
    pending,        \* pending[p]: the broadcasts rank p issued and has not waited on
    oplog,          \* oplog[p]: the broadcasts and waits of the call, in program order
    returned        \* returned[p]: what network.sync returned

\* The state of one network.sync call followed statement by statement.
syncvars == << sync_call, pending, oplog, returned >>

vars == << size, args, pc, timestamp, log_id_dir, fs, seed, p2pseed, params,
           variables, idx, handles, calls, opened, container, local_step, events,
           decided, gpu_id, names, syncvars >>

Peers == 0 .. (size - 1)

Range(f) == {f[i] : i \in DOMAIN f}

\* ------------------------------------------------------- pure functions

\* make_log_id_from_timestamp(...) joined under log_dir/env_id: the path is a
\* function of the command line and of the timestamp alone.
LogIdDir(a, ts) ==
    << a.log_dir, a.env_id, a.tag, a.mode_name, a.agent, a.network, ts >>

\* LogFile with the rank left out of the file name.
LogFile_NoRank(dir, r) == dir \o << "train_log", ".txt" >>

\* 'train_log_rank{}.txt'.format(rank) under the log directory.
LogFile(dir, r) == dir \o << "train_log_rank", ToString(r), ".txt" >>

\* 'rank{}'.format(rank) under the log directory.
SummaryDir(dir, r) == dir \o << "rank", ToString(r) >>

\* write_args_file(log_id_dir, args): the file rank 0 writes the arguments to.
ArgsFile(dir) == dir \o << "args" >>

\* What rank r opens under the log directory in lines 86-95: its log file and
\* its summary directory, and on rank 0 the arguments file.
OpenedBy(dir, r) ==
    {LogFile(dir, r), SummaryDir(dir, r)} \cup (IF r = 0 THEN {ArgsFile(dir)} ELSE {})

\* EnvSeed with the offset taken from the number of ranks that already have
\* their seed, not from the rank.
EnvSeed_ByArrival(base, nb_env, r) ==
    base + (nb_env * Cardinality({q \in Peers : seed[q] # -1}))

\* EnvSeed with the per-rank offset left out.
EnvSeed_NoOffset(base, nb_env, r) == base

\* seed = args.seed if rank == 0 else args.seed + (args.nb_env * (rank - 1))
EnvSeed(base, nb_env, r) ==
    IF r = 0 THEN base ELSE base + (nb_env * (r - 1))

\* The buffer names in the order of construction.
Canonical == [i \in 1 .. NumParams |-> i]

\* make_network on rank r: the buffers, in the order rank r enumerates them,
\* hold whatever rank r initialised them to; the value of the buffer named n
\* is the opaque token <<"init", r, n>>.
MakeNetwork(r) == [i \in 1 .. Len(names[r]) |-> << "init", r, names[r][i] >>]

\* GpuFor with every rank on the first device of the list.
GpuFor_First(gpu, r) == gpu.ids[1]

\* Lines 104-107: gpu_id = args.gpu_id[rank % len(args.gpu_id)] for a list,
\* args.gpu_id itself otherwise.
GpuFor(gpu, r) ==
    IF gpu.is_list THEN gpu.ids[(r % Len(gpu.ids)) + 1] ELSE gpu.ids[1]

\* CopyInto with the copy back into the network left out.
CopyInto_NotCopied(model, shared) == model

\* CopyInto with each received buffer copied into the buffer of the same
\* name, not of the same position.
CopyInto_ByName(model, shared) ==
    [i \in 1 .. Len(model) |->
        shared[CHOOSE j \in 1 .. Len(shared) : names[0][j] = model[i][3]]]

\* for shared_v, model_v in zip(variables, network.parameters()):
\*     model_v.data.copy_(torch.from_numpy(shared_v))
CopyInto(model, shared) ==
    [i \in 1 .. Len(model) |-> IF i <= Len(shared) THEN shared[i] ELSE model[i]]

\* ------------------------------------------------------------ collectives

NextCall(p) == Len(calls[p]) + 1

Call(op, root, payload) == [op |-> op, root |-> root, payload |-> payload]

\* What rank p contributes to a broadcast from root: its buffer at the root,
\* nothing elsewhere.
Contribution(p, root, buffer) == IF p = root THEN buffer ELSE NoPayload

\* The root has issued its k-th collective call: a receiver's k-th call can
\* complete.
RootIssued(root, k) == root \in Peers /\ Len(calls[root]) >= k

\* BcastResult with the return value of the collective dropped.
BcastResult_Local(p, root, local, k) == local

\* BcastResult with the received buffer combined with the local one.
BcastResult_Averaged(p, root, local, k) ==
    IF p = root THEN local ELSE << "avg", local, calls[root][k].payload >>

\* What a broadcast issued as k-th call leaves in the buffer of rank p.
BcastResult(p, root, local, k) ==
    IF p = root THEN local ELSE calls[root][k].payload

\* BarrierComplete for a barrier that waits for every rank to be past it.
BarrierComplete_Strict(k) == \A q \in Peers : Len(calls[q]) > k

\* BarrierComplete for a barrier that does not wait.
BarrierComplete_NoWait(k) == TRUE

\* comm.Barrier() entered as k-th call returns once every rank issued its k-th call.
BarrierComplete(k) == \A q \in Peers : Len(calls[q]) >= k

\* ---------------------------------------------------------------- main()

\* AfterMakedirs with the OSError caught and ignored.
AfterMakedirs_Swallowed(ok) == "bcast"

\* Where rank 0 continues after os.makedirs(log_id_dir): an OSError is not
\* caught, so main() ends there.
AfterMakedirs(ok) == IF ok THEN "bcast" ELSE "failed"

\* Lines 42-51. Rank 0 mints the timestamp, composes the log directory and
\* creates it (which may raise); every other rank sets timestamp = None.
Start(p) ==
    /\ pc[p] = "start"
    /\ IF p = 0
       THEN \E ts \in Timestamps, ok \in BOOLEAN :
              /\ timestamp' = [timestamp EXCEPT ![p] = ts]
              /\ log_id_dir' = [log_id_dir EXCEPT ![p] = LogIdDir(args, ts)]
              /\ fs' = IF ok THEN fs \cup {LogIdDir(args, ts)} ELSE fs
              /\ pc' = [pc EXCEPT ![p] = AfterMakedirs(ok)]
       ELSE /\ timestamp' = [timestamp EXCEPT ![p] = None]
            /\ pc' = [pc EXCEPT ![p] = "bcast"]
            /\ UNCHANGED << log_id_dir, fs >>
    /\ UNCHANGED << size, args, names, syncvars, gpu_id, seed, p2pseed, params, variables, idx, handles,
                    calls, opened, container, local_step, events, decided >>

\* Lines 52-58. timestamp = comm.bcast(timestamp, root=0); a rank other than 0
\* then derives log_id_dir from the timestamp it received.
BcastTimestamp(p) ==
    /\ pc[p] = "bcast"
    /\ RootIssued(0, NextCall(p)) \/ p = 0
    /\ LET k == NextCall(p)
           ts == BcastResult(p, 0, << timestamp[p] >>, k)[1]
       IN /\ calls' = [calls EXCEPT ![p] =
                          Append(@, Call("bcast", 0, Contribution(p, 0, << timestamp[p] >>)))]
          /\ timestamp' = [timestamp EXCEPT ![p] = ts]
          /\ log_id_dir' = [log_id_dir EXCEPT ![p] =
                               IF p # 0 THEN LogIdDir(args, ts) ELSE @]
    /\ pc' = [pc EXCEPT ![p] = "barrier"]
    /\ UNCHANGED << size, args, names, syncvars, gpu_id, fs, seed, p2pseed, params, variables, idx, handles,
                    opened, container, local_step, events, decided >>

\* BarrierEnter with the barrier entered by the ranks other than 0 only.
BarrierEnter_RootSkips(p) ==
    /\ pc[p] = "barrier"
    /\ calls' = [calls EXCEPT ![p] =
                    IF p = 0 THEN @ ELSE Append(@, Call("Barrier", -1, NoPayload))]
    /\ pc' = [pc EXCEPT ![p] = IF p = 0 THEN "env" ELSE "in_barrier"]
    /\ UNCHANGED << size, args, names, syncvars, gpu_id, timestamp, log_id_dir, fs, seed, p2pseed, params,
                    variables, idx, handles, opened, container, local_step,
                    events, decided >>

\* Line 60, entering comm.Barrier().
BarrierEnter(p) ==
    /\ pc[p] = "barrier"
    /\ calls' = [calls EXCEPT ![p] = Append(@, Call("Barrier", -1, NoPayload))]
    /\ pc' = [pc EXCEPT ![p] = "in_barrier"]
    /\ UNCHANGED << size, args, names, syncvars, gpu_id, timestamp, log_id_dir, fs, seed, p2pseed, params,
                    variables, idx, handles, opened, container, local_step,
                    events, decided >>

\* Line 60, comm.Barrier() returning.
BarrierLeave(p) ==
    /\ pc[p] = "in_barrier"
    /\ BarrierComplete(Len(calls[p]))
    /\ pc' = [pc EXCEPT ![p] = "env"]
    /\ UNCHANGED << size, args, names, syncvars, gpu_id, timestamp, log_id_dir, fs, seed, p2pseed, params,
                    variables, idx, handles, calls, opened, container, local_step,
                    events, decided >>

\* Lines 62-70: the seeds, the environment and the network.
ConstructEnv(p) ==
    /\ pc[p] = "env"
    /\ p2pseed' = [p2pseed EXCEPT ![p] = args.seed]
    /\ seed' = [seed EXCEPT ![p] = EnvSeed(args.seed, args.nb_env, p)]
    /\ params' = [params EXCEPT ![p] = MakeNetwork(p)]
    /\ idx' = [idx EXCEPT ![p] = 0]
    /\ pc' = [pc EXCEPT ![p] = "sync"]
    /\ UNCHANGED << size, args, names, syncvars, gpu_id, timestamp, log_id_dir, fs, variables, handles,
                    calls, opened, container, local_step, events, decided >>

\* SyncParam with the parameter broadcast left out.
SyncParam_Skipped(p) ==
    /\ pc[p] = "sync"
    /\ pc' = [pc EXCEPT ![p] = "logger"]
    /\ UNCHANGED << size, args, names, syncvars, gpu_id, timestamp, log_id_dir, fs, seed, p2pseed, params,
                    variables, idx, handles, calls, opened, container, local_step,
                    events, decided >>

\* The initial sync event a rank records when lines 73-84 are through.
InitialSync == [kind |-> "initial", source |-> 0, step |-> 0]

\* Lines 72-84, one comm.Bcast(v, root=0) per pass. Rank 0 sends its buffer;
\* another rank receives into variables (line 79 builds them from the
\* parameters) and, after the last buffer, copies them into the network.
SyncParam(p) ==
    /\ pc[p] = "sync"
    /\ RootIssued(0, NextCall(p)) \/ p = 0
    /\ LET k == NextCall(p)
           i == idx[p] + 1
           bufs == IF p = 0 \/ idx[p] = 0 THEN params[p] ELSE variables[p]
           got == [bufs EXCEPT ![i] = BcastResult(p, 0, bufs[i], k)]
           last == (i = Len(params[p]))
       IN /\ calls' = [calls EXCEPT ![p] =
                          Append(@, Call("Bcast", 0, Contribution(p, 0, bufs[i])))]
          /\ idx' = [idx EXCEPT ![p] = i]
          /\ variables' = [variables EXCEPT ![p] = IF p = 0 THEN @ ELSE got]
          /\ params' = [params EXCEPT ![p] =
                           IF p # 0 /\ last THEN CopyInto(@, got) ELSE @]
          /\ events' = [events EXCEPT ![p] = IF last THEN Append(@, InitialSync) ELSE @]
          /\ pc' = [pc EXCEPT ![p] = IF last THEN "logger" ELSE "sync"]
    /\ UNCHANGED << size, args, names, syncvars, gpu_id, timestamp, log_id_dir, fs, seed, p2pseed, handles,
                    opened, container, local_step, decided >>

\* ConstructWorker with an interval of one step handed to the container when
\* none is configured.
ConstructWorker_DefaultInterval(p) ==
    /\ pc[p] = "logger"
    /\ LET mine == OpenedBy(log_id_dir[p], p)
       IN /\ opened' = [opened EXCEPT ![p] = mine]
          /\ fs' = fs \cup mine
    /\ container' = [container EXCEPT ![p] =
           << [shared_seed |-> p2pseed[p],
               synchronize_step_interval |->
                   IF args.synchronize_step_interval = << >>
                   THEN << 1 >> ELSE args.synchronize_step_interval,
               share_optimizer_params |-> args.share_optimizer_params] >>]
    /\ gpu_id' = [gpu_id EXCEPT ![p] = GpuFor(args.gpu_id, p)]
    /\ local_step' = [local_step EXCEPT ![p] = 0]
    /\ pc' = [pc EXCEPT ![p] = "run"]
    /\ UNCHANGED << size, args, names, syncvars, timestamp, log_id_dir, seed, p2pseed, params,
                    variables, idx, handles, calls, events, decided >>

\* ConstructWorker with synchronize_step_interval not handed to the container.
ConstructWorker_NoInterval(p) ==
    /\ pc[p] = "logger"
    /\ LET mine == OpenedBy(log_id_dir[p], p)
       IN /\ opened' = [opened EXCEPT ![p] = mine]
          /\ fs' = fs \cup mine
    /\ container' = [container EXCEPT ![p] =
           << [shared_seed |-> p2pseed[p],
               synchronize_step_interval |-> << >>,
               share_optimizer_params |-> args.share_optimizer_params] >>]
    /\ gpu_id' = [gpu_id EXCEPT ![p] = GpuFor(args.gpu_id, p)]
    /\ local_step' = [local_step EXCEPT ![p] = 0]
    /\ pc' = [pc EXCEPT ![p] = "run"]
    /\ UNCHANGED << size, args, names, syncvars, timestamp, log_id_dir, seed, p2pseed, params,
                    variables, idx, handles, calls, events, decided >>

\* Lines 86-115: the logger and the summary writer under log_id_dir, the
\* optimizer factory, the agent and the P2PWorker container.
ConstructWorker(p) ==
    /\ pc[p] = "logger"
    /\ LET mine == OpenedBy(log_id_dir[p], p)
       IN /\ opened' = [opened EXCEPT ![p] = mine]
          /\ fs' = fs \cup mine
    /\ container' = [container EXCEPT ![p] =
           << [shared_seed |-> p2pseed[p],
               synchronize_step_interval |-> args.synchronize_step_interval,
               share_optimizer_params |-> args.share_optimizer_params] >>]
    /\ gpu_id' = [gpu_id EXCEPT ![p] = GpuFor(args.gpu_id, p)]
    /\ local_step' = [local_step EXCEPT ![p] = 0]
    /\ pc' = [pc EXCEPT ![p] = "run"]
    /\ UNCHANGED << size, args, names, syncvars, timestamp, log_id_dir, seed, p2pseed, params,
                    variables, idx, handles, calls, events, decided >>

\* ------------------------------------------------- P2PWorker.run, BaseNetwork.sync

\* The synchronization policy: with an interval K configured, synchronize at
\* the local steps that are multiples of K; with none, never.
ShouldSync(interval, s) == \E K \in Range(interval) : s % K = 0

\* The rank the periodic synchronization replicates from.
SyncSource == 0

\* One local training step of rank r at local step s: the optimizer leaves
\* every buffer with a value of rank r's own, the token <<"step", r, s, i>>.
Train(ps, r, s) == [i \in 1 .. Len(ps) |-> << "step", r, s, i >>]

\* BaseNetwork.sync, lines 49-53: one dist.broadcast(t, src, grp, True) per
\* buffer, in the buffers' order; none of them blocks.
IssueBroadcasts(p, src) ==
    [i \in 1 .. Len(params[p]) |->
        Call("broadcast", src, Contribution(p, src, params[p][i]))]

\* The top of the container's loop at local step s = local_step[p]: the loop
\* ends at max_train_steps; otherwise the policy decides; a due
\* synchronization issues its broadcasts, and with none due the local step
\* (environment interaction, the optimizer's update, the step counter) follows
\* at once.
RunLoop(p) ==
    /\ pc[p] = "run"
    /\ IF local_step[p] >= args.max_train_steps
       THEN /\ pc' = [pc EXCEPT ![p] = "done"]
            /\ UNCHANGED << calls, handles, decided, params, local_step >>
       ELSE LET d == ShouldSync(container[p][1].synchronize_step_interval, local_step[p])
                k == Len(calls[p])
            IN /\ decided' = [decided EXCEPT ![p] = Append(@, d)]
               /\ IF d
                  THEN /\ calls' = [calls EXCEPT ![p] = @ \o IssueBroadcasts(p, SyncSource)]
                       /\ handles' = [handles EXCEPT ![p] =
                                         [i \in 1 .. Len(params[p]) |-> k + i]]
                       /\ pc' = [pc EXCEPT ![p] = "wait"]
                       /\ UNCHANGED << params, local_step >>
                  ELSE /\ params' = [params EXCEPT ![p] = Train(@, p, local_step[p])]
                       /\ local_step' = [local_step EXCEPT ![p] = @ + 1]
                       /\ pc' = [pc EXCEPT ![p] = "run"]
                       /\ UNCHANGED << calls, handles >>
    /\ UNCHANGED << size, args, names, syncvars, gpu_id, timestamp, log_id_dir, fs, seed, p2pseed,
                    variables, idx, opened, container, events >>

\* WaitBroadcasts with waits that return at once: the handles are dropped
\* without the transfers having happened.
WaitBroadcasts_NoWait(p) ==
    /\ pc[p] = "wait"
    /\ handles' = [handles EXCEPT ![p] = << >>]
    /\ events' = [events EXCEPT ![p] =
           Append(@, [kind |-> "periodic", source |-> SyncSource, step |-> local_step[p]])]
    /\ pc' = [pc EXCEPT ![p] = "train"]
    /\ UNCHANGED << size, args, names, syncvars, gpu_id, timestamp, log_id_dir, fs, seed, p2pseed, variables,
                    idx, calls, opened, container, local_step, decided, params >>

\* BaseNetwork.sync, lines 55-58 with async_op=False: h.wait() for every
\* handle; each returns once the source's matching broadcast was issued, with
\* the buffer overwritten in place.
WaitBroadcasts(p) ==
    /\ pc[p] = "wait"
    /\ \A i \in 1 .. Len(handles[p]) : RootIssued(SyncSource, handles[p][i])
    /\ params' = [params EXCEPT ![p] =
           [i \in 1 .. Len(@) |-> BcastResult(p, SyncSource, @[i], handles[p][i])]]
    /\ handles' = [handles EXCEPT ![p] = << >>]
    /\ events' = [events EXCEPT ![p] =
           Append(@, [kind |-> "periodic", source |-> SyncSource, step |-> local_step[p]])]
    /\ pc' = [pc EXCEPT ![p] = "train"]
    /\ UNCHANGED << size, args, names, syncvars, gpu_id, timestamp, log_id_dir, fs, seed, p2pseed, variables,
                    idx, calls, opened, container, local_step, decided >>

\* The local step that follows a synchronization.
TrainStep(p) ==
    /\ pc[p] = "train"
    /\ params' = [params EXCEPT ![p] = Train(@, p, local_step[p])]
    /\ local_step' = [local_step EXCEPT ![p] = @ + 1]
    /\ pc' = [pc EXCEPT ![p] = "run"]
    /\ UNCHANGED << size, args, names, syncvars, gpu_id, timestamp, log_id_dir, fs, seed, p2pseed, variables,
                    idx, handles, calls, opened, container, events, decided >>

\* ------------------------------------------- BaseNetwork.sync, step by step

\* What main() and the container own and one network.sync call leaves alone.
outside_sync == << size, args, timestamp, log_id_dir, fs, seed, p2pseed, variables,
                   opened, container, local_step, events, decided, gpu_id, names,
                   sync_call >>

\* The arguments of the call rank p is in.
SyncArgs(p) == sync_call[p][1]

\* One entry of oplog: an operation on the buffer at a position, for the
\* collective issued as a rank's call number `call`.
Op(op, buffer, src, call) == [op |-> op, buffer |-> buffer, src |-> src, call |-> call]

\* WaitsOnReturn for a sync that never waits.
WaitsOnReturn_Never(async_op) == FALSE

\* Line 55, `if not async_op`: the call waits on its handles before returning.
WaitsOnReturn(async_op) == ~async_op

\* SyncBroadcast with a blocking broadcast: the wait for a buffer's
\* broadcast comes before the next buffer's broadcast is issued.
SyncBroadcast_Blocking(p) ==
    /\ pc[p] = "sync_issue"
    /\ idx[p] < Len(params[p])
    /\ LET i == idx[p] + 1
           k == NextCall(p)
           src == SyncArgs(p).src
       IN /\ RootIssued(src, k) \/ p = src
          /\ calls' = [calls EXCEPT ![p] =
                 Append(@, Call("broadcast", src, Contribution(p, src, params[p][i])))]
          /\ handles' = [handles EXCEPT ![p] = Append(@, k)]
          /\ params' = [params EXCEPT ![p][i] =
                 IF p = src THEN @ ELSE calls[src][k].payload]
          /\ oplog' = [oplog EXCEPT ![p] =
                 @ \o << Op("broadcast", i, src, k), Op("wait", i, src, k) >>]
          /\ idx' = [idx EXCEPT ![p] = i]
          /\ pc' = [pc EXCEPT ![p] =
                 IF i = Len(params[p]) THEN "sync_return" ELSE "sync_issue"]
    /\ UNCHANGED << outside_sync, pending, returned >>

\* Lines 50-53, one turn of the loop over self.state_dict().values():
\* handles.append(dist.broadcast(t, src, grp, True)). The broadcast is
\* asynchronous, so the turn ends without the transfer having happened; after
\* the last buffer line 55 decides whether the waits follow.
SyncBroadcast(p) ==
    /\ pc[p] = "sync_issue"
    /\ idx[p] < Len(params[p])
    /\ LET i == idx[p] + 1
           k == NextCall(p)
           src == SyncArgs(p).src
       IN /\ calls' = [calls EXCEPT ![p] =
                 Append(@, Call("broadcast", src, Contribution(p, src, params[p][i])))]
          /\ handles' = [handles EXCEPT ![p] = Append(@, k)]
          /\ pending' = [pending EXCEPT ![p] = @ \cup {k}]
          /\ oplog' = [oplog EXCEPT ![p] = Append(@, Op("broadcast", i, src, k))]
          /\ idx' = [idx EXCEPT ![p] = i]
          /\ pc' = [pc EXCEPT ![p] =
                 IF i < Len(params[p]) THEN "sync_issue"
                 ELSE IF WaitsOnReturn(SyncArgs(p).async_op) THEN "sync_wait"
                 ELSE "sync_return"]
    /\ UNCHANGED << outside_sync, params, returned >>

\* The number of handles the comprehension of line 56 has waited on.
Waited(p) == Len(oplog[p]) - Len(handles[p])

\* Line 56, one element of [h.wait() for h in handles]: the wait on the next
\* handle, in the handles' order. It returns once the source has issued the
\* broadcast it pairs with, and the buffer then holds the source's payload.
SyncWaitHandle(p) ==
    /\ pc[p] = "sync_wait"
    /\ LET j == Waited(p) + 1
           k == handles[p][j]
           src == SyncArgs(p).src
       IN /\ RootIssued(src, k)
          /\ params' = [params EXCEPT ![p][j] = BcastResult(p, src, @, k)]
          /\ pending' = [pending EXCEPT ![p] = @ \ {k}]
          /\ oplog' = [oplog EXCEPT ![p] = Append(@, Op("wait", j, src, k))]
          /\ pc' = [pc EXCEPT ![p] =
                 IF j = Len(handles[p]) THEN "sync_return" ELSE "sync_wait"]
    /\ UNCHANGED << outside_sync, idx, handles, calls, returned >>

\* Line 58, return handles: the work handles themselves with async_op, the
\* results of their waits without.
SyncReturn(p) ==
    /\ pc[p] = "sync_return"
    /\ returned' = [returned EXCEPT ![p] =
           [i \in 1 .. Len(handles[p]) |->
               << IF SyncArgs(p).async_op THEN "handle" ELSE "waited", handles[p][i] >>]]
    /\ pc' = [pc EXCEPT ![p] = "returned"]
    /\ UNCHANGED << outside_sync, params, idx, handles, calls, pending, oplog >>

\* ------------------------------------------------------- specifications

\* --gpu-id given as G device ids, and not given (the default, 0).
GpuList(G) == [is_list |-> TRUE, ids |-> [j \in 1 .. G |-> G - j]]
GpuDefault == [is_list |-> FALSE, ids |-> << 0 >>]

\* The command lines explored: every rank is started with the same one.
Args(seeds, nb_envs, gpus) ==
    [ seed : seeds, nb_env : nb_envs, gpu_id : gpus,
      synchronize_step_interval : {<< >>, << SyncInterval >>},
      share_optimizer_params : BOOLEAN,
      max_train_steps : {MaxSteps},
      log_dir : {"log_dir"}, env_id : {"env_id"}, tag : {"tag"},
      mode_name : {"P2P"}, agent : {"ActorCritic"}, network : {"FourConvLSTM"} ]

\* Every rank at the entry of main().
AtEntry(at) ==
    /\ pc = [p \in Peers |-> at]
    /\ timestamp = [p \in Peers |-> None]
    /\ log_id_dir = [p \in Peers |-> NoPath]
    /\ fs = {}
    /\ seed = [p \in Peers |-> -1]
    /\ p2pseed = [p \in Peers |-> -1]
    /\ params = [p \in Peers |-> << >>]
    /\ variables = [p \in Peers |-> << >>]
    /\ idx = [p \in Peers |-> 0]
    /\ handles = [p \in Peers |-> << >>]
    /\ calls = [p \in Peers |-> << >>]
    /\ opened = [p \in Peers |-> {}]
    /\ container = [p \in Peers |-> << >>]
    /\ local_step = [p \in Peers |-> 0]
    /\ events = [p \in Peers |-> << >>]
    /\ decided = [p \in Peers |-> << >>]
    /\ gpu_id = [p \in Peers |-> -1]
    /\ sync_call = [p \in Peers |-> << >>]
    /\ pending = [p \in Peers |-> {}]
    /\ oplog = [p \in Peers |-> << >>]
    /\ returned = [p \in Peers |-> << >>]

Init ==
    /\ size \in 2 .. MaxN
    /\ args \in Args({42}, {MaxNbEnv}, {GpuList(2)})
    /\ names = [p \in Peers |-> Canonical]
    /\ AtEntry("start")

Next ==
    \/ \E p \in Peers : Start(p)
    \/ \E p \in Peers : BcastTimestamp(p)
    \/ \E p \in Peers : BarrierEnter(p)
    \/ \E p \in Peers : BarrierLeave(p)
    \/ \E p \in Peers : ConstructEnv(p)
    \/ \E p \in Peers : SyncParam(p)
    \/ \E p \in Peers : ConstructWorker(p)
    \/ \E p \in Peers : RunLoop(p)
    \/ \E p \in Peers : WaitBroadcasts(p)
    \/ \E p \in Peers : TrainStep(p)

Spec == Init /\ [][Next]_vars

\* One step of rank p, whichever it is.
PeerStep(p) ==
    /\ p \in Peers
    /\ \/ Start(p) \/ BcastTimestamp(p) \/ BarrierEnter(p) \/ BarrierLeave(p)
       \/ ConstructEnv(p) \/ SyncParam(p) \/ ConstructWorker(p)
       \/ RunLoop(p) \/ WaitBroadcasts(p) \/ TrainStep(p)

\* Every rank is an operating-system process of its own: a rank that can take
\* a step eventually takes one.
FairSpec == Spec /\ \A p \in 0 .. (MaxN - 1) : WF_vars(PeerStep(p))

\* The seed assignment alone: every rank is at line 62, with the base seed,
\* nb_env and the number of ranks drawn from their ranges.
InitSeed ==
    /\ size \in 2 .. MaxN
    /\ args \in Args((0 .. MaxSeed) \cup {42}, 1 .. MaxNbEnv, {GpuList(2)})
    /\ names = [p \in Peers |-> Canonical]
    /\ AtEntry("env")

NextSeed == \E p \in Peers : ConstructEnv(p)

SeedSpec == InitSeed /\ [][NextSeed]_vars

\* The device selection alone: every rank is at line 86, with the number of
\* ranks and the --gpu-id list drawn from their ranges.
InitGpu ==
    /\ size \in 2 .. MaxN
    /\ args \in Args({42}, {MaxNbEnv}, {GpuList(G) : G \in 1 .. MaxGpus} \cup {GpuDefault})
    /\ names = [p \in Peers |-> Canonical]
    /\ AtEntry("logger")

NextGpu == \E p \in Peers : ConstructWorker(p)

GpuSpec == InitGpu /\ [][NextGpu]_vars

\* The orders in which a rank may enumerate the buffers.
Orders == {o \in [1 .. NumParams -> 1 .. NumParams] : \A n \in 1 .. NumParams : \E i \in 1 .. NumParams : o[i] = n}

\* main() up to the construction of the container.
NextBootstrap ==
    \/ \E p \in Peers : Start(p)
    \/ \E p \in Peers : BcastTimestamp(p)
    \/ \E p \in Peers : BarrierEnter(p)
    \/ \E p \in Peers : BarrierLeave(p)
    \/ \E p \in Peers : ConstructEnv(p)
    \/ \E p \in Peers : SyncParam(p)
    \/ \E p \in Peers : ConstructWorker(p)

\* The bootstrap with networks that enumerate the same buffers in orders of
\* their own: rank 0 in the order of construction, every other rank in any.
InitMismatch ==
    /\ size \in 2 .. MaxN
    /\ args \in {a \in Args({42}, {MaxNbEnv}, {GpuList(2)}) :
                    a.synchronize_step_interval = << >> /\ ~a.share_optimizer_params}
    /\ names \in {o \in [Peers -> Orders] : o[0] = Canonical}
    /\ AtEntry("start")

MismatchSpec == InitMismatch /\ [][NextBootstrap]_vars

\* Every rank calls network.sync(src, grp, async_op) with the same source and
\* the same flag, on a network of its own.
InitSync ==
    /\ size \in 2 .. MaxN
    /\ args \in {a \in Args({42}, {MaxNbEnv}, {GpuList(2)}) :
                    /\ a.synchronize_step_interval = << SyncInterval >>
                    /\ ~a.share_optimizer_params}
    /\ names = [p \in Peers |-> Canonical]
    /\ pc = [p \in Peers |-> "sync_issue"]
    /\ \E src \in Peers, async_op \in BOOLEAN :
           sync_call = [p \in Peers |-> << [src |-> src, async_op |-> async_op] >>]
    /\ params = [p \in Peers |-> MakeNetwork(p)]
    /\ timestamp = [p \in Peers |-> None]
    /\ log_id_dir = [p \in Peers |-> NoPath]
    /\ fs = {}
    /\ seed = [p \in Peers |-> -1]
    /\ p2pseed = [p \in Peers |-> -1]
    /\ variables = [p \in Peers |-> << >>]
    /\ idx = [p \in Peers |-> 0]
    /\ handles = [p \in Peers |-> << >>]
    /\ calls = [p \in Peers |-> << >>]
    /\ opened = [p \in Peers |-> {}]
    /\ container = [p \in Peers |-> << >>]
    /\ local_step = [p \in Peers |-> 0]
    /\ events = [p \in Peers |-> << >>]
    /\ decided = [p \in Peers |-> << >>]
    /\ gpu_id = [p \in Peers |-> -1]
    /\ pending = [p \in Peers |-> {}]
    /\ oplog = [p \in Peers |-> << >>]
    /\ returned = [p \in Peers |-> << >>]

NextSync ==
    \/ \E p \in Peers : SyncBroadcast(p)
    \/ \E p \in Peers : SyncWaitHandle(p)
    \/ \E p \in Peers : SyncReturn(p)

SyncSpec == InitSync /\ [][NextSync]_vars

\* ------------------------------------------------------------ properties

\* Rank p is past the initial parameter sync of lines 72-84.
AfterInitialSync(p) == pc[p] \in {"logger", "run", "wait", "train", "done"}

\* Rank p is past comm.Barrier().
AfterBarrier(p) == pc[p] \in {"env", "sync"} \/ AfterInitialSync(p)

\* Rank p is past comm.bcast(timestamp, root=0).
AfterTimestamp(p) == pc[p] \in {"barrier", "in_barrier"} \/ AfterBarrier(p)

\* What rank 0 sent in its parameter broadcasts, in the order it sent them.
SentByRoot ==
    LET sent == SelectSeq(calls[0], LAMBDA c : c.op = "Bcast")
    IN [i \in 1 .. Len(sent) |-> sent[i].payload]

\* The initial sync events among those rank p completed.
InitialEvents(p) == SelectSeq(events[p], LAMBDA e : e.kind = "initial")

\* The periodic sync events among those rank p completed.
PeriodicEvents(p) == SelectSeq(events[p], LAMBDA e : e.kind = "periodic")

\* C1: once a rank has finished the initial parameter sync, and until its
\* first local training step, each of its parameter buffers holds, position
\* for position, what rank 0 sent for that buffer.
C1_InitialConvergence ==
    \A p \in Peers :
        (AfterInitialSync(p) /\ local_step[p] = 0) =>
            /\ Len(params[p]) = NumParams
            /\ Len(SentByRoot) = NumParams
            /\ \A i \in 1 .. NumParams : params[p][i] = SentByRoot[i]

\* C1 witness: with the largest number of ranks, every rank is through the
\* initial sync and the last rank holds rank 0's buffers, not its own.
C1_Witness ==
    /\ size = MaxN
    /\ \A p \in Peers : pc[p] = "logger"
    /\ params[size - 1] = MakeNetwork(0)
    /\ params[size - 1] # MakeNetwork(size - 1)

\* C2: on every rank exactly one initial sync event happens, its source is
\* rank 0, and it is complete before container.run starts and before any
\* local step or periodic decision, whatever synchronize_step_interval and
\* share_optimizer_params are.
C2_OneInitialSync ==
    \A p \in Peers :
        /\ Len(InitialEvents(p)) <= 1
        /\ \A i \in 1 .. Len(events[p]) :
              events[p][i].kind = "initial" => (i = 1 /\ events[p][i].source = 0)
        /\ (pc[p] \in {"run", "wait", "train", "done"}
              \/ local_step[p] > 0 \/ decided[p] # << >> \/ container[p] # << >>)
               => Len(InitialEvents(p)) = 1
        /\ ~AfterInitialSync(p) => events[p] = << >>

\* C2 witness: a rank has taken a local step, after its one initial sync, in
\* a run with an interval configured and optimizer sharing on.
C2_Witness ==
    \E p \in Peers :
        /\ local_step[p] >= 1
        /\ Len(InitialEvents(p)) = 1
        /\ args.synchronize_step_interval # << >>
        /\ args.share_optimizer_params

\* The kind of a collective call: the operation and its root.
Kind(c) == << c.op, c.root >>

\* The collective calls of main(), in order.
MainCollectives ==
    << << "bcast", 0 >>, << "Barrier", -1 >> >>
        \o [i \in 1 .. NumParams |-> << "Bcast", 0 >>]

\* C3: every rank issues the collective calls of main() in the same order:
\* the timestamp broadcast from root 0, the barrier, then one parameter
\* broadcast from root 0 per buffer; so the k-th collective call of a rank is
\* of the same kind as the k-th call of every other rank.
C3_SameCollectiveSequence ==
    /\ \A p \in Peers :
          /\ \A k \in 1 .. Len(calls[p]) :
                k <= Len(MainCollectives) => Kind(calls[p][k]) = MainCollectives[k]
          /\ AfterInitialSync(p) => Len(calls[p]) >= Len(MainCollectives)
          /\ pc[p] \in {"start", "bcast", "barrier", "in_barrier", "env", "sync", "logger"}
                => Len(calls[p]) <= Len(MainCollectives)
    /\ \A p, q \in Peers :
          \A k \in 1 .. Len(calls[p]) :
              k <= Len(calls[q]) => Kind(calls[p][k]) = Kind(calls[q][k])

\* C3 witness: rank 0 has issued every collective call of main() while
\* another rank is still inside the barrier.
C3_Witness ==
    /\ size = MaxN
    /\ pc[0] = "logger"
    /\ Len(calls[0]) = Len(MainCollectives)
    /\ pc[1] = "in_barrier"
    /\ pc[size - 1] = "sync"

\* The timestamp rank 0 handed to comm.bcast.
Minted == calls[0][1].payload[1]

\* C4: after the timestamp broadcast every rank holds the timestamp rank 0
\* minted and the log directory derived from it; each rank takes part in one
\* timestamp broadcast only, and neither value changes afterwards.
C4_SharedTimestamp ==
    /\ [](\A p \in Peers :
            /\ Len(SelectSeq(calls[p], LAMBDA c : c.op = "bcast")) <= 1
            /\ AfterTimestamp(p) =>
                  /\ Len(SelectSeq(calls[p], LAMBDA c : c.op = "bcast")) = 1
                  /\ calls[0] # << >>
                  /\ Minted \in Timestamps
                  /\ timestamp[p] = Minted
                  /\ timestamp[p] = timestamp[0]
                  /\ log_id_dir[p] = LogIdDir(args, Minted)
                  /\ log_id_dir[p] = log_id_dir[0])
    /\ [][\A p \in Peers :
            AfterTimestamp(p) =>
                /\ timestamp'[p] = timestamp[p]
                /\ log_id_dir'[p] = log_id_dir[p]
                /\ calls'[0][1] = calls[0][1]]_vars

\* C4 witness: every rank has received the second of the two timestamps and
\* derived the directory from it.
C4_Witness ==
    /\ size = MaxN
    /\ \A p \in Peers :
          /\ pc[p] = "in_barrier"
          /\ timestamp[p] = "2018-06-01_12-00-01"
          /\ log_id_dir[p] = LogIdDir(args, "2018-06-01_12-00-01")

\* C5: no rank is past the barrier, and no rank has opened its log file or
\* its summary directory, unless rank 0 has created the log directory and
\* every rank has derived its log path.
C5_BarrierBeforeLogging ==
    \A p \in Peers :
        (AfterBarrier(p) \/ opened[p] # {}) =>
            /\ log_id_dir[0] # NoPath
            /\ log_id_dir[0] \in fs
            /\ \A q \in Peers : log_id_dir[q] # NoPath /\ AfterTimestamp(q)

\* C5 witness: one rank has left the barrier and opened its log file while
\* another has not yet returned from it.
C5_Witness ==
    /\ size = MaxN
    /\ \E p, q \in Peers :
          /\ opened[p] # {}
          /\ pc[q] = "in_barrier"

\* Rank 0 is past os.makedirs and the log directory does not exist: the
\* directory creation failed.
MakedirsFailed == pc[0] # "start" /\ log_id_dir[0] \notin fs

\* C6, as claimed: when directory creation fails at rank 0, every other rank
\* still completes the timestamp step and derives its log path.
C6_OthersProceed ==
    MakedirsFailed ~>
        (\A p \in Peers \ {0} : AfterTimestamp(p) /\ log_id_dir[p] # NoPath)

\* C6, amended: when directory creation fails at rank 0, main() ends at rank 0
\* before the timestamp broadcast, so no other rank completes the timestamp
\* step or derives a log path: each gets no further than comm.bcast.
C6_OthersBlocked ==
    MakedirsFailed =>
        /\ pc[0] = "failed"
        /\ calls[0] = << >>
        /\ \A p \in Peers \ {0} :
              /\ pc[p] \in {"start", "bcast"}
              /\ timestamp[p] = None
              /\ log_id_dir[p] = NoPath
              /\ calls[p] = << >>

\* C6 witness: directory creation failed at rank 0 and every other rank
\* waits in comm.bcast.
C6_Witness ==
    /\ size = MaxN
    /\ MakedirsFailed
    /\ pc[0] = "failed"
    /\ \A p \in Peers \ {0} : pc[p] = "bcast" /\ ~ENABLED BcastTimestamp(p)

\* Rank p has computed its environment seed (line 64).
SeedAssigned(p) == pc[p] \notin {"start", "bcast", "barrier", "in_barrier", "env", "failed"}

\* C7: for nb_env >= 1, rank 0's environment seed is the base seed, and the
\* seeds of any two different non-zero ranks differ.
C7_SeedsDistinctNonZero ==
    args.nb_env >= 1 =>
        \A p \in Peers :
            SeedAssigned(p) =>
                /\ p = 0 => seed[p] = args.seed
                /\ p2pseed[p] = args.seed
                /\ \A q \in Peers :
                      (SeedAssigned(q) /\ p # 0 /\ q # 0 /\ p # q) => seed[p] # seed[q]

\* C7 witness: with the largest number of ranks and nb_env = 1, every rank
\* has its seed.
C7_Witness ==
    /\ size = MaxN
    /\ size >= 3
    /\ args.nb_env = 1
    /\ \A p \in Peers : SeedAssigned(p)
    /\ seed[1] # seed[2]

\* C8: with three ranks and base seed 42, the environment seeds are
\* 42, 42 + nb_env and 42 + 2 * nb_env for ranks 0, 1 and 2.
C8_ScenarioA ==
    (size = 3 /\ args.seed = 42 /\ \A p \in Peers : SeedAssigned(p)) =>
        /\ seed[0] = 42
        /\ seed[1] = 42 + args.nb_env
        /\ seed[2] = 42 + (2 * args.nb_env)

\* C9: the environment seeds of any two different ranks differ, rank 0
\* included.
C9_SeedsUnique ==
    \A p, q \in Peers :
        (SeedAssigned(p) /\ SeedAssigned(q) /\ p # q) => seed[p] # seed[q]

\* C10: with synchronize_step_interval = K configured, the periodic decision
\* of a rank at local step s is true exactly when s is a multiple of K,
\* however many syncs came before; its periodic syncs are those of the local
\* steps 0, K, 2K, ... in this order and no others.
C10_PeriodicDecision ==
    \A p \in Peers :
        \A K \in Range(args.synchronize_step_interval) :
            /\ \A n \in 1 .. Len(decided[p]) : decided[p][n] <=> ((n - 1) % K = 0)
            /\ \A j \in 1 .. Len(PeriodicEvents(p)) :
                  PeriodicEvents(p)[j].step = (j - 1) * K
            /\ pc[p] \in {"run", "done"} =>
                  /\ Len(decided[p]) = local_step[p]
                  /\ Len(PeriodicEvents(p)) = Cardinality({s \in 0 .. local_step[p] - 1 : s % K = 0})

\* C10 witness: a rank has synchronized at local steps 0 and K, and decided
\* against it at a step in between.
C10_Witness ==
    \E p \in Peers :
        /\ args.synchronize_step_interval = << SyncInterval >>
        /\ Len(PeriodicEvents(p)) = 2
        /\ PeriodicEvents(p)[2].step = SyncInterval
        /\ \E n \in 1 .. Len(decided[p]) : ~decided[p][n]

\* C11: with synchronize_step_interval unset, a rank completes one sync event
\* over the whole run, the initial one: no periodic decision is ever true, no
\* broadcast is issued after those of main(), however many local steps it runs.
C11_NoPeriodicByDefault ==
    args.synchronize_step_interval = << >> =>
        \A p \in Peers :
            /\ Len(events[p]) <= 1
            /\ PeriodicEvents(p) = << >>
            /\ pc[p] \notin {"wait", "train"}
            /\ \A n \in 1 .. Len(decided[p]) : ~decided[p][n]
            /\ Len(calls[p]) <= Len(MainCollectives)
            /\ AfterInitialSync(p) => events[p] = << InitialSync >>

\* C11 witness: with no interval configured a rank has run all its local
\* steps and finished with the initial sync event alone.
C11_Witness ==
    /\ args.synchronize_step_interval = << >>
    /\ \E p \in Peers :
          /\ pc[p] = "done"
          /\ local_step[p] = MaxSteps
          /\ Len(decided[p]) = MaxSteps
          /\ events[p] = << InitialSync >>

\* C13: the environment seed of a rank is a function of the base seed, nb_env
\* and the rank alone: whatever the timestamp, the number of ranks and the
\* order in which the ranks run, rank 0 has the base seed and rank r >= 1 has
\* base seed + nb_env * (r - 1), and the shared seed is the base seed.
C13_SeedReproducible ==
    \A p \in Peers :
        SeedAssigned(p) =>
            /\ seed[p] = args.seed + (args.nb_env * (IF p >= 1 THEN p - 1 ELSE 0))
            /\ p2pseed[p] = args.seed

\* C13 witness: the last rank has its seed before rank 1 has, in a run with
\* the second timestamp.
C13_Witness ==
    /\ size = MaxN
    /\ size >= 3
    /\ timestamp[0] = "2018-06-01_12-00-01"
    /\ SeedAssigned(size - 1)
    /\ ~SeedAssigned(1)

\* C15: in a run where rank 0 created the log directory, every rank
\* eventually completes the timestamp broadcast, the barrier and all the
\* parameter broadcasts, and reaches the construction of its container.
C15_BootstrapCompletes ==
    (pc[0] = "bcast") ~> (\A p \in Peers : AfterInitialSync(p))

\* C15 witness: every rank of the largest group is through the bootstrap
\* with all the collective calls of main() issued.
C15_Witness ==
    /\ size = MaxN
    /\ \A p \in Peers : AfterInitialSync(p) /\ Len(calls[p]) >= Len(MainCollectives)

\* The buffers of the synchronization source when it is at local step s.
SourceBuffersAt(s) ==
    IF s = 0 THEN MakeNetwork(SyncSource)
    ELSE Train(MakeNetwork(SyncSource), SyncSource, s - 1)

\* C16: a sync is a replication. Every network keeps its number of buffers;
\* the source's buffers are as they were before the sync; after the initial
\* sync a rank holds rank 0's buffers, and after the periodic sync of local
\* step s it holds, position for position, the buffers the source had at its
\* local step s, not a combination with its own.
C16_PureReplication ==
    \A p \in Peers :
        /\ params[p] # << >> => Len(params[p]) = NumParams
        /\ (pc[p] = "sync" /\ p = 0) => params[p] = MakeNetwork(0)
        /\ (AfterInitialSync(p) /\ local_step[p] = 0) => params[p] = MakeNetwork(0)
        /\ pc[p] = "train" => params[p] = SourceBuffersAt(local_step[p])
        /\ (pc[p] = "wait" /\ p = SyncSource) => params[p] = SourceBuffersAt(local_step[p])

\* C16 witness: a rank other than the source has completed the periodic sync
\* of local step SyncInterval and holds the source's buffers of that step.
C16_Witness ==
    \E p \in Peers \ {SyncSource} :
        /\ pc[p] = "train"
        /\ local_step[p] = SyncInterval
        /\ params[p] = Train(params[p], SyncSource, SyncInterval - 1)
        /\ params[p] # Train(params[p], p, SyncInterval - 1)

\* C18: everything a rank opens lies under the log directory of rank 0, the
\* same for all ranks, and no path is opened by two ranks: log files and
\* summary directories are pairwise distinct across ranks.
C18_DistinctLogPaths ==
    /\ \A p \in Peers :
          \A path \in opened[p] :
              /\ Len(path) > Len(log_id_dir[0])
              /\ SubSeq(path, 1, Len(log_id_dir[0])) = log_id_dir[0]
              /\ log_id_dir[0] \in fs
    /\ \A p, q \in Peers :
          p # q =>
              /\ opened[p] \cap opened[q] = {}
              /\ (opened[p] # {} /\ opened[q] # {}) =>
                    /\ LogFile(log_id_dir[p], p) \in opened[p]
                    /\ SummaryDir(log_id_dir[p], p) \in opened[p]
                    /\ LogFile(log_id_dir[p], p) \notin opened[q]
                    /\ SummaryDir(log_id_dir[p], p) \notin opened[q]

\* C18 witness: every rank of the largest group has opened its log file and
\* its summary directory.
C18_Witness ==
    /\ size = MaxN
    /\ \A p \in Peers : Cardinality(opened[p]) >= 2

\* The ranks that selected the device at position j of the --gpu-id list.
OnDevice(j) == {p \in Peers : gpu_id[p] = args.gpu_id.ids[j]}

\* C20: with --gpu-id a list of G device ids, rank r selects the id at
\* position r mod G, and once every rank has selected, the numbers of ranks
\* on any two positions of the list differ by at most one.
C20_EvenGpuSpread ==
    args.gpu_id.is_list =>
        LET G == Len(args.gpu_id.ids)
        IN /\ \A p \in Peers :
                 gpu_id[p] # -1 => gpu_id[p] = args.gpu_id.ids[(p % G) + 1]
           /\ (\A p \in Peers : gpu_id[p] # -1) =>
                 \A j1, j2 \in 1 .. G :
                     Cardinality(OnDevice(j1)) - Cardinality(OnDevice(j2)) <= 1

\* C20 witness: the largest group has selected its devices from a list of two,
\* one position serving more ranks than the other or as many.
C20_Witness ==
    /\ size = MaxN
    /\ args.gpu_id = GpuList(2)
    /\ \A p \in Peers : gpu_id[p] # -1
    /\ Cardinality(OnDevice(1)) >= Cardinality(OnDevice(2))
    /\ Cardinality(OnDevice(2)) >= 1

C12_ReturnContract ==
    \A p \in Peers :
        pc[p] = "returned" =>
            /\ Len(returned[p]) = Len(params[p])
            /\ \A i \in 1 .. Len(params[p]) :
                   /\ returned[p][i][2] = handles[p][i]
                   /\ oplog[p][i] = Op("broadcast", i, SyncArgs(p).src, handles[p][i])
            /\ IF SyncArgs(p).async_op
               THEN /\ \A n \in 1 .. Len(oplog[p]) : oplog[p][n].op # "wait"
                    /\ pending[p] = {handles[p][i] : i \in 1 .. Len(handles[p])}
                    /\ \A i \in 1 .. Len(params[p]) : returned[p][i][1] = "handle"
               ELSE /\ pending[p] = {}
                    /\ \A i \in 1 .. Len(handles[p]) :
                           /\ \E n \in 1 .. Len(oplog[p]) :
                                  oplog[p][n] = Op("wait", i, SyncArgs(p).src, handles[p][i])
                           /\ RootIssued(SyncArgs(p).src, handles[p][i])
                           /\ params[p][i] = << "init", SyncArgs(p).src, names[SyncArgs(p).src][i] >>

\* A blocking call has returned at a rank other than the source with nothing
\* outstanding.
C12_Witness ==
    \E p \in Peers :
        /\ pc[p] = "returned"
        /\ p # SyncArgs(p).src
        /\ ~SyncArgs(p).async_op
        /\ pending[p] = {}
        /\ Len(returned[p]) = NumParams

\* C14: one call to BaseNetwork.sync issues one broadcast per buffer, each
\* from the source rank the call was given, at positions 1, 2, ... in the
\* buffers' order, all of them before the first wait; the collectives a
\* rank issued are those broadcasts and nothing else, so two ranks' sequences
\* of broadcast positions agree position for position.
C14_OneBroadcastPerBuffer ==
    /\ \A p \in Peers :
           /\ Len(calls[p]) = idx[p]
           /\ idx[p] <= Len(params[p])
           /\ pc[p] # "sync_issue" => idx[p] = Len(params[p])
           /\ \A n \in 1 .. Len(oplog[p]) :
                  IF n <= idx[p]
                  THEN /\ oplog[p][n] = Op("broadcast", n, SyncArgs(p).src, n)
                       /\ calls[p][n].op = "broadcast"
                       /\ calls[p][n].root = SyncArgs(p).src
                  ELSE /\ oplog[p][n].op = "wait"
                       /\ idx[p] = Len(params[p])
    /\ \A p, q \in Peers :
           \A n \in 1 .. Len(calls[p]) :
               n <= Len(calls[q]) =>
                   /\ oplog[p][n].buffer = oplog[q][n].buffer
                   /\ calls[p][n].root = calls[q][n].root

\* Every rank has returned from a blocking call: all broadcasts and all
\* waits are in the log.
C14_Witness ==
    \A p \in Peers :
        /\ pc[p] = "returned"
        /\ Len(oplog[p]) = 2 * NumParams
        /\ oplog[p][NumParams].op = "broadcast"
        /\ oplog[p][NumParams + 1].op = "wait"

\* The position, among a rank's collective calls, of the broadcast of buffer
\* i in its j-th periodic synchronization.
PeriodicCall(j, i) == Len(MainCollectives) + (j - 1) * NumParams + i

====
